---- MODULE Spec2Model ----
(***************************************************************************)
(* Model of pyis.py: the implementation-shortfall TCA engine.              *)
(*                                                                         *)
(* Quantities, prices and commissions are integers (Python evaluates the   *)
(* formulas exactly on integer inputs).  An optional attribute (end_price, *)
(* fee) is a sequence of length 0 (None) or 1 (the value).  A method that  *)
(* can raise returns the engine it leaves behind together with the         *)
(* exception ("none" when it returns normally).                            *)
(***************************************************************************)
EXTENDS Integers, Sequences, FiniteSets, TLC

\* ------------------------------------------------------------------ bounds
MaxQty == 2        \* share_num, execute_num range over 0..MaxQty
MaxPrice == 2      \* prices range over 0..MaxPrice
MaxFee == 1        \* commissions range over 0..MaxFee
MaxBatch == 2      \* longest list handed to batch_tca_run
MaxResults == 2    \* accumulating calls start from at most this many records

\* ------------------------------------------------------------- data model
None == <<>>

Some(v) == <<v>>

Names == {"tran1", "tran2"}

\* class Fee
Fee(commission) == [commission |-> commission]

total_fee(fee) == fee.commission

\* class Transaction: every combination of attribute values within the bounds
Transaction ==
    [name : Names,
     share_num : 0..MaxQty,
     execute_num : 0..MaxQty,
     delay_price : 0..MaxPrice,
     execute_avg_price : 0..MaxPrice,
     determined_price : 0..MaxPrice,
     end_price : {None} \cup {Some(p) : p \in 0..MaxPrice},
     fee : {None} \cup {Some(Fee(c)) : c \in 0..MaxFee}]

\* The transactions the accumulating engine is driven with: one planned
\* size, pairwise different prices, every fill status (partial, complete,
\* over-filled) and, for the first two, every combination of missing inputs.
\* As in the __main__ example the complete fill is named tran2.
TxPool ==
    {t \in [name : Names,
            share_num : {1},
            execute_num : {0, 1, 2},
            delay_price : {1},
            execute_avg_price : {2},
            determined_price : {0},
            end_price : {None, Some(3)},
            fee : {None, Some(Fee(1))}] :
        /\ t.name = (IF t.execute_num = 1 THEN "tran2" ELSE "tran1")
        /\ t.execute_num = 2 => (t.end_price # None /\ t.fee # None)}

is_fully_executed_lax(t) == t.execute_num >= t.share_num

is_fully_executed(t) == t.share_num = t.execute_num

\* class Cost: execution_cost and total_cost are filled in by the attrs
\* default factories from the five supplied attributes.
Cost_nofee(cost_name, delay_cost, trading_cost, opportunity_cost, fee_cost) ==
    [cost_name |-> cost_name,
     delay_cost |-> delay_cost,
     trading_cost |-> trading_cost,
     opportunity_cost |-> opportunity_cost,
     fee_cost |-> fee_cost,
     execution_cost |-> trading_cost + delay_cost,
     total_cost |-> (trading_cost + delay_cost) + opportunity_cost]

Cost(cost_name, delay_cost, trading_cost, opportunity_cost, fee_cost) ==
    [cost_name |-> cost_name,
     delay_cost |-> delay_cost,
     trading_cost |-> trading_cost,
     opportunity_cost |-> opportunity_cost,
     fee_cost |-> fee_cost,
     execution_cost |-> trading_cost + delay_cost,
     total_cost |-> (trading_cost + delay_cost) + opportunity_cost + fee_cost]

\* --------------------------------------------------------------- engine
\* TCAEngine.__init__
TCAEngine == [transactions |-> <<>>, cost_results |-> <<>>]

Returned(self) == [self |-> self, exc |-> "none"]

Raised(self, exc) == [self |-> self, exc |-> exc]

reset_result_keep(self) == [self EXCEPT !.transactions = <<>>]

reset_result(self) == [transactions |-> <<>>, cost_results |-> <<>>]

complete_execution_unfolded(self, transaction) ==
    IF transaction.fee = None
    THEN Raised(self, "AttributeError")
    ELSE LET executed_cost == transaction.share_num *
                 (transaction.execute_avg_price - transaction.determined_price)
         IN Returned([self EXCEPT !.cost_results = Append(@,
                Cost("Executation Cost " \o transaction.name, 0, executed_cost,
                     0, total_fee(transaction.fee[1])))])

complete_execution(self, transaction) ==
    IF transaction.fee = None
    THEN Raised(self, "AttributeError")
    ELSE LET executed_cost == transaction.share_num *
                 (transaction.execute_avg_price - transaction.determined_price)
                 + total_fee(transaction.fee[1])
         IN Returned([self EXCEPT !.cost_results = Append(@,
                Cost("Executation Cost " \o transaction.name, 0, executed_cost,
                     0, total_fee(transaction.fee[1])))])

opportunity_cost_delay(self, transaction) ==
    IF transaction.end_price = None
    THEN Raised(self, "TypeError")
    ELSE LET executed_cost == transaction.execute_num *
                 (transaction.execute_avg_price - transaction.determined_price)
             opportunity_cost_ ==
                 (transaction.share_num - transaction.execute_num) *
                 (transaction.end_price[1] - transaction.delay_price)
         IN IF transaction.fee = None
            THEN Raised(self, "AttributeError")
            ELSE Returned([self EXCEPT !.cost_results = Append(@,
                    Cost("Opportunity Cost " \o transaction.name, 0,
                         executed_cost, opportunity_cost_,
                         total_fee(transaction.fee[1])))])

opportunity_cost_early(self, transaction) ==
    IF transaction.end_price = None
    THEN Raised(self, "TypeError")
    ELSE LET executed_cost == transaction.execute_num *
                 (transaction.execute_avg_price - transaction.determined_price)
             opportunity_cost_ ==
                 (transaction.share_num - transaction.execute_num) *
                 (transaction.end_price[1] - transaction.determined_price)
         IN IF transaction.fee = None
            THEN Raised([self EXCEPT !.cost_results = Append(@,
                    Cost("Opportunity Cost " \o transaction.name, 0,
                         executed_cost, opportunity_cost_, 0))],
                    "AttributeError")
            ELSE Returned([self EXCEPT !.cost_results = Append(@,
                    Cost("Opportunity Cost " \o transaction.name, 0,
                         executed_cost, opportunity_cost_,
                         total_fee(transaction.fee[1])))])

opportunity_cost(self, transaction) ==
    IF transaction.end_price = None
    THEN Raised(self, "TypeError")
    ELSE LET executed_cost == transaction.execute_num *
                 (transaction.execute_avg_price - transaction.determined_price)
             opportunity_cost_ ==
                 (transaction.share_num - transaction.execute_num) *
                 (transaction.end_price[1] - transaction.determined_price)
         IN IF transaction.fee = None
            THEN Raised(self, "AttributeError")
            ELSE Returned([self EXCEPT !.cost_results = Append(@,
                    Cost("Opportunity Cost " \o transaction.name, 0,
                         executed_cost, opportunity_cost_,
                         total_fee(transaction.fee[1])))])

expanded_implementation_shortfall_executed(self, transaction) ==
    IF transaction.end_price = None
    THEN Raised(self, "TypeError")
    ELSE LET delay_cost == transaction.execute_num *
                 (transaction.delay_price - transaction.determined_price)
             trading_cost == transaction.execute_num *
                 (transaction.execute_avg_price - transaction.delay_price)
             opportunity_cost_ ==
                 (transaction.share_num - transaction.execute_num) *
                 (transaction.end_price[1] - transaction.delay_price)
         IN IF transaction.fee = None
            THEN Raised(self, "AttributeError")
            ELSE Returned([self EXCEPT !.cost_results = Append(@,
                    Cost("Expanded IS Cost " \o transaction.name, delay_cost,
                         trading_cost, opportunity_cost_,
                         total_fee(transaction.fee[1])))])

expanded_implementation_shortfall(self, transaction) ==
    IF transaction.end_price = None
    THEN Raised(self, "TypeError")
    ELSE LET delay_cost == transaction.share_num *
                 (transaction.delay_price - transaction.determined_price)
             trading_cost == transaction.execute_num *
                 (transaction.execute_avg_price - transaction.delay_price)
             opportunity_cost_ ==
                 (transaction.share_num - transaction.execute_num) *
                 (transaction.end_price[1] - transaction.delay_price)
         IN IF transaction.fee = None
            THEN Raised(self, "AttributeError")
            ELSE Returned([self EXCEPT !.cost_results = Append(@,
                    Cost("Expanded IS Cost " \o transaction.name, delay_cost,
                         trading_cost, opportunity_cost_,
                         total_fee(transaction.fee[1])))])

tca_run_noreset(self, transaction, reset) ==
    IF is_fully_executed(transaction)
    THEN complete_execution(self, transaction)
    ELSE LET first == opportunity_cost(self, transaction)
         IN IF first.exc # "none"
            THEN first
            ELSE expanded_implementation_shortfall(first.self, transaction)

tca_run(self, transaction, reset) ==
    LET start == IF reset THEN reset_result(self) ELSE self
    IN IF is_fully_executed(transaction)
       THEN complete_execution(start, transaction)
       ELSE LET first == opportunity_cost(start, transaction)
            IN IF first.exc # "none"
               THEN first
               ELSE expanded_implementation_shortfall(first.self, transaction)

RECURSIVE batch_tca_run_default_reset(_, _)
batch_tca_run_default_reset(self, transactions) ==
    IF transactions = <<>>
    THEN Returned(self)
    ELSE LET one == tca_run(self, Head(transactions), TRUE)
         IN IF one.exc # "none"
            THEN one
            ELSE batch_tca_run_default_reset(one.self, Tail(transactions))

RECURSIVE batch_tca_run(_, _)
batch_tca_run(self, transactions) ==
    IF transactions = <<>>
    THEN Returned(self)
    ELSE LET one == tca_run(self, Head(transactions), FALSE)
         IN IF one.exc # "none"
            THEN one
            ELSE batch_tca_run(one.self, Tail(transactions))

\* ---------------------------------------------------------- state machine
VARIABLES
    transactions,    \* engine.transactions
    cost_results,    \* engine.cost_results
    prev_results,    \* engine.cost_results when the last call was entered
    call             \* the last call: method, arguments, exception raised

vars == <<transactions, cost_results, prev_results, call>>

engine == [transactions |-> transactions, cost_results |-> cost_results]

Batches == UNION {[1..n -> TxPool] : n \in 0..MaxBatch}

Init ==
    /\ transactions = TCAEngine.transactions
    /\ cost_results = TCAEngine.cost_results
    /\ prev_results = <<>>
    /\ call = [op |-> "init", args |-> <<>>, reset |-> FALSE, exc |-> "none"]

Finish(op, args, reset, out) ==
    /\ transactions' = out.self.transactions
    /\ cost_results' = out.self.cost_results
    /\ prev_results' = cost_results
    /\ call' = [op |-> op, args |-> args, reset |-> reset, exc |-> out.exc]

TcaRun(t, reset) ==
    /\ reset \/ Len(cost_results) <= MaxResults
    /\ Finish("tca_run", <<t>>, reset, tca_run(engine, t, reset))

BatchTcaRun(ts) ==
    /\ Len(cost_results) <= MaxResults
    /\ Finish("batch_tca_run", ts, FALSE, batch_tca_run(engine, ts))

ResetResult ==
    Finish("reset_result", <<>>, FALSE, Returned(reset_result(engine)))

Next ==
    \/ \E t \in TxPool, reset \in BOOLEAN : TcaRun(t, reset)
    \/ \E ts \in Batches : BatchTcaRun(ts)
    \/ ResetResult

Spec == Init /\ [][Next]_vars

\* One tca_run on a freshly constructed engine, over every transaction
\* within the bounds.
FreshRun(t) ==
    /\ call.op = "init"
    /\ TcaRun(t, TRUE)

NextFormulas ==
    /\ call.op = "init"
    /\ \E t \in Transaction : FreshRun(t)

SpecFormulas == Init /\ [][NextFormulas]_vars

\* ------------------------------------------------------------- properties
\* Vocabulary of the properties below.
LastTx == call.args[1]

HasInputs(t) ==
    /\ t.fee # None
    /\ t.share_num # t.execute_num => t.end_price # None

\* The results the formulas of the last tca_run started from.
Base == IF call.reset THEN <<>> ELSE prev_results

IsPrefix(s, t) == Len(s) <= Len(t) /\ SubSeq(t, 1, Len(s)) = s

\* What the last call added behind the records it started from.
Added(base) == SubSeq(cost_results, Len(base) + 1, Len(cost_results))

\* The records of one tca_run of t on a newly constructed engine.
Single(t) == tca_run(TCAEngine, t, TRUE).self.cost_results

RECURSIVE SingleAll(_)
SingleAll(ts) == IF ts = <<>> THEN <<>> ELSE Single(Head(ts)) \o SingleAll(Tail(ts))

RecordCount(t) == IF t.share_num = t.execute_num THEN 1 ELSE 2

RECURSIVE RecordCountAll(_)
RecordCountAll(ts) ==
    IF ts = <<>> THEN 0 ELSE RecordCount(Head(ts)) + RecordCountAll(Tail(ts))

\* Index of the first transaction of ts with a missing input, 0 if none.
FirstMissing(ts) ==
    LET bad == {i \in 1..Len(ts) : ~HasInputs(ts[i])}
    IN IF bad = {} THEN 0 ELSE CHOOSE i \in bad : \A j \in bad : i <= j

\* C1: a tca_run on a transaction with its inputs present appends exactly
\* one record when share_num = execute_num, and otherwise (also when
\* execute_num > share_num) exactly two, the Opportunity Cost record first
\* and the Expanded IS Cost record second.
C1_Selection ==
    (call.op = "tca_run" /\ HasInputs(LastTx)) =>
        /\ call.exc = "none"
        /\ IsPrefix(Base, cost_results)
        /\ IF LastTx.share_num = LastTx.execute_num
           THEN /\ Len(Added(Base)) = 1
                /\ Added(Base)[1].cost_name \notin
                       {"Opportunity Cost " \o LastTx.name,
                        "Expanded IS Cost " \o LastTx.name}
           ELSE /\ Len(Added(Base)) = 2
                /\ Added(Base)[1].cost_name = "Opportunity Cost " \o LastTx.name
                /\ Added(Base)[2].cost_name = "Expanded IS Cost " \o LastTx.name

C1_Witness ==
    /\ call.op = "tca_run"
    /\ ~call.reset
    /\ call.exc = "none"
    /\ LastTx.execute_num > LastTx.share_num
    /\ Len(prev_results) > 0
    /\ Len(cost_results) = Len(prev_results) + 2

\* C2: the single record of a fully executed transaction has delay_cost 0,
\* opportunity_cost 0, fee_cost equal to the commission, and trading_cost
\* share_num * (execute_avg_price - determined_price) plus the commission.
C2_CompleteExecution ==
    (call.op = "tca_run" /\ LastTx.fee # None
        /\ LastTx.share_num = LastTx.execute_num) =>
        /\ call.exc = "none"
        /\ Len(cost_results) = 1
        /\ cost_results[1].delay_cost = 0
        /\ cost_results[1].opportunity_cost = 0
        /\ cost_results[1].fee_cost = LastTx.fee[1].commission
        /\ cost_results[1].trading_cost =
               LastTx.share_num *
                   (LastTx.execute_avg_price - LastTx.determined_price)
               + LastTx.fee[1].commission

C2_Witness ==
    /\ call.op = "tca_run"
    /\ call.exc = "none"
    /\ LastTx.share_num = LastTx.execute_num
    /\ LastTx.share_num > 0
    /\ LastTx.execute_avg_price > LastTx.determined_price
    /\ LastTx.fee[1].commission > 0
    /\ Len(cost_results) = 1

\* C3: a transaction that is not fully executed yields the Opportunity Cost
\* record (measured against determined_price, no delay cost) followed by the
\* Expanded IS record (delay cost on share_num, trading and opportunity cost
\* measured against delay_price); neither trading_cost holds the commission.
C3_PartialFormulas ==
    (call.op = "tca_run" /\ HasInputs(LastTx)
        /\ LastTx.share_num # LastTx.execute_num) =>
        LET t == LastTx
            fee == t.fee[1].commission
        IN /\ call.exc = "none"
           /\ Len(cost_results) = 2
           /\ cost_results[1].delay_cost = 0
           /\ cost_results[1].trading_cost =
                  t.execute_num * (t.execute_avg_price - t.determined_price)
           /\ cost_results[1].opportunity_cost =
                  (t.share_num - t.execute_num) *
                      (t.end_price[1] - t.determined_price)
           /\ cost_results[1].fee_cost = fee
           /\ cost_results[2].delay_cost =
                  t.share_num * (t.delay_price - t.determined_price)
           /\ cost_results[2].trading_cost =
                  t.execute_num * (t.execute_avg_price - t.delay_price)
           /\ cost_results[2].opportunity_cost =
                  (t.share_num - t.execute_num) *
                      (t.end_price[1] - t.delay_price)
           /\ cost_results[2].fee_cost = fee

C3_Witness ==
    /\ call.op = "tca_run"
    /\ call.exc = "none"
    /\ LastTx.share_num > LastTx.execute_num
    /\ LastTx.execute_num > 0
    /\ LastTx.determined_price < LastTx.delay_price
    /\ LastTx.delay_price < LastTx.execute_avg_price
    /\ LastTx.end_price[1] # LastTx.delay_price
    /\ LastTx.fee[1].commission > 0
    /\ Len(cost_results) = 2

\* C4: every accumulated Cost record has execution_cost = delay_cost +
\* trading_cost and total_cost = execution_cost + opportunity_cost +
\* fee_cost, and a call that does not reset leaves the records accumulated
\* before it in place, unchanged.
SumOfParts(c) ==
    /\ c.execution_cost = c.delay_cost + c.trading_cost
    /\ c.total_cost = c.execution_cost + c.opportunity_cost + c.fee_cost

C4_CostConsistent ==
    /\ [](\A i \in 1..Len(cost_results) : SumOfParts(cost_results[i]))
    /\ [][(call'.op \in {"tca_run", "batch_tca_run"} /\ ~call'.reset)
              => IsPrefix(cost_results, cost_results')]_vars

C4_Witness ==
    /\ call.op \in {"tca_run", "batch_tca_run"}
    /\ ~call.reset
    /\ Len(prev_results) > 0
    /\ Len(cost_results) > Len(prev_results)
    /\ \E i \in 1..Len(cost_results) :
          /\ cost_results[i].delay_cost # 0
          /\ cost_results[i].trading_cost # 0
          /\ cost_results[i].opportunity_cost # 0
          /\ cost_results[i].fee_cost # 0

\* C5: after tca_run(t, reset=True) the results are those of a single call
\* on a new engine, whatever had been accumulated before: the one or two
\* records of t.
C5_ResetRunIndependent ==
    (call.op = "tca_run" /\ call.reset) =>
        /\ cost_results = Single(LastTx)
        /\ call.exc = "none" => Len(cost_results) = RecordCount(LastTx)

C5_Witness ==
    /\ call.op = "tca_run"
    /\ call.reset
    /\ call.exc = "none"
    /\ Len(cost_results) = 2
    /\ prev_results = cost_results

\* C6: batch_tca_run keeps the N records held before it as an unchanged
\* prefix and, when every transaction has its inputs, follows them with the
\* records of the transactions in input order: 1 for each fully executed
\* one, 2 (Opportunity Cost, then Expanded IS Cost) for each other.
C6_BatchAppends ==
    (call.op = "batch_tca_run") =>
        /\ IsPrefix(prev_results, cost_results)
        /\ FirstMissing(call.args) = 0 =>
              /\ call.exc = "none"
              /\ Len(cost_results) =
                     Len(prev_results) + RecordCountAll(call.args)
              /\ Added(prev_results) = SingleAll(call.args)
              /\ \A i \in 1..Len(call.args) :
                    call.args[i].share_num # call.args[i].execute_num =>
                        LET at == Len(prev_results)
                                  + RecordCountAll(SubSeq(call.args, 1, i - 1))
                        IN /\ cost_results[at + 1].cost_name =
                                  "Opportunity Cost " \o call.args[i].name
                           /\ cost_results[at + 2].cost_name =
                                  "Expanded IS Cost " \o call.args[i].name

C6_Witness ==
    /\ call.op = "batch_tca_run"
    /\ call.exc = "none"
    /\ Len(call.args) = 2
    /\ call.args[1].share_num = call.args[1].execute_num
    /\ call.args[2].share_num # call.args[2].execute_num
    /\ Len(prev_results) > 0
    /\ Len(cost_results) = Len(prev_results) + 3

\* C7: reset_result can be called in every engine state, leaves the results
\* and the transaction history empty, and is idempotent.
C7_Reset ==
    /\ ENABLED ResetResult
    /\ reset_result(reset_result(engine)) = reset_result(engine)
    /\ reset_result(engine) = TCAEngine
    /\ call.op = "reset_result" =>
          /\ call.exc = "none"
          /\ cost_results = <<>>
          /\ transactions = <<>>

C7_Witness ==
    /\ call.op = "reset_result"
    /\ Len(prev_results) > 0
    /\ cost_results = <<>>
    /\ transactions = <<>>

\* C8: a tca_run that meets a missing input raises and appends nothing for
\* that transaction, leaving the results as they were when the formulas
\* started; a batch_tca_run raises at the first such transaction, with the
\* records of the earlier transactions in place and none for the failing or
\* the later ones.
C8_NoPartialResult ==
    /\ (call.op = "tca_run" /\ ~HasInputs(LastTx)) =>
          /\ call.exc # "none"
          /\ cost_results = Base
    /\ (call.op = "batch_tca_run" /\ FirstMissing(call.args) # 0) =>
          /\ call.exc # "none"
          /\ cost_results = prev_results \o
                 SingleAll(SubSeq(call.args, 1, FirstMissing(call.args) - 1))

C8_Witness ==
    /\ call.op = "batch_tca_run"
    /\ call.exc # "none"
    /\ FirstMissing(call.args) = 2
    /\ call.args[2].share_num # call.args[2].execute_num
    /\ call.args[2].end_price # None
    /\ Len(prev_results) > 0
    /\ Len(cost_results) > Len(prev_results)

\* C9: the record of a fully executed transaction is named "Execution Cost
\* <name>", the records of any other "Opportunity Cost <name>" and
\* "Expanded IS Cost <name>".
C9_Labels ==
    (call.op = "tca_run" /\ call.exc = "none") =>
        IF LastTx.share_num = LastTx.execute_num
        THEN cost_results[1].cost_name = "Execution Cost " \o LastTx.name
        ELSE /\ cost_results[1].cost_name = "Opportunity Cost " \o LastTx.name
             /\ cost_results[2].cost_name = "Expanded IS Cost " \o LastTx.name

\* C10: the Opportunity Cost record and the Expanded IS record of one
\* transaction have the same total_cost, execute_num * execute_avg_price +
\* (share_num - execute_num) * end_price - share_num * determined_price +
\* commission, in which delay_price does not occur.
C10_EqualTotals ==
    (call.op = "tca_run" /\ call.exc = "none"
        /\ LastTx.share_num # LastTx.execute_num) =>
        LET t == LastTx
            total == t.execute_num * t.execute_avg_price
                     + (t.share_num - t.execute_num) * t.end_price[1]
                     - t.share_num * t.determined_price
                     + t.fee[1].commission
        IN /\ cost_results[1].total_cost = total
           /\ cost_results[2].total_cost = total

C10_Witness ==
    /\ call.op = "tca_run"
    /\ call.exc = "none"
    /\ LastTx.execute_num > LastTx.share_num
    /\ LastTx.delay_price # LastTx.determined_price
    /\ Len(cost_results) = 2
    /\ cost_results[1].total_cost = cost_results[2].total_cost
    /\ cost_results[1].delay_cost # cost_results[2].delay_cost

====
